---- MODULE Spec2Model ----
(***************************************************************************)
(* Knowledge store (ontology server: OWL world + reasoner + Neo4j          *)
(* projection), its HTTP handlers, and the plan-execution workflow         *)
(* (plan_reader -> next_action -> world_update) with its versioned TTL     *)
(* files and logs.                                                         *)
(*                                                                         *)
(* Names (ids, classes, predicates) are sequences of symbols, so that the  *)
(* substring tests and replacements of the line-oriented TTL rewriter      *)
(* ("in", str.replace) are computed: corridor_14 is corridor_1 followed by *)
(* the symbol "4".                                                         *)
(***************************************************************************)
EXTENDS Naturals, Sequences, FiniteSets, TLC

VARIABLES
    indClass,       \* OWL world: individual id -> class (ontology.individuals())
    triples,        \* OWL world: object-property triples held by the quadstore
    assertedFacts,  \* the triples callers asserted (inputs), without inferences
    projNodes,      \* Neo4j: ids of the :Individual nodes
    projEdges,      \* Neo4j: edges <<subj, property, obj>> between Individual nodes
    hpc,            \* per in-flight request: position of its handler
    hreq,           \* per in-flight request: the request
    hres,           \* per in-flight request: status the handler will return
    readObs,        \* last observation of a projection reader (GraphTools)
    node,           \* workflow: node about to run
    wf,             \* workflow: OverallState
    httpReq,        \* the agent's POST /sparql/update on its way to the server
    httpResp,       \* answer to the agent's POST /sparql/update ("none" while waiting)
    dynamicTtl,     \* action/world/dynamic_N.ttl: N -> lines, or NoFile
    staticTtl,      \* action/world/static_N.ttl: the versions that exist
    logs,           \* action/log/N.json: N -> "none" | "success" | "failed"
    writeCount,     \* per TTL version: how many times dynamic_N.ttl was written
    envFiles,       \* data/envs/<env>/dynamic.ttl, static.ttl, action/relationship_mapping.json
    runs,           \* workflow runs started
    faults,         \* exceptions the reasoner and the Neo4j driver have raised
    call,           \* a function applied on its own: its name and arguments
    ret             \* what that function returned

ksVars  == <<indClass, triples, assertedFacts, projNodes, projEdges, hpc, hreq, hres>>
wfVars  == <<node, wf, httpReq, httpResp, dynamicTtl, staticTtl, logs, writeCount, envFiles, runs>>
vars    == <<indClass, triples, assertedFacts, projNodes, projEdges, hpc, hreq, hres,
             readObs, node, wf, httpReq, httpResp, dynamicTtl, staticTtl, logs, writeCount,
             envFiles, runs, faults, call, ret>>

-----------------------------------------------------------------------------
(* Bounds of the model *)

NSlots == 2
MaxPlanLen == 2
MaxRuns == 2
MaxBatch == 2
MaxWrites == 2
MaxFaults == 1

Slots == 1..NSlots

-----------------------------------------------------------------------------
(* Names *)

robot1 == <<"robot1">>
corridor_1 == <<"corridor_1">>
corridor_14 == <<"corridor_1", "4">>
kitchen_13 == <<"kitchen_13">>

Robot == <<"Robot">>
Space == <<"Space">>
UnknownClass == <<"Unknown">>

robotIsInSpace == <<"robotIsInSpace">>
objectIsInSpace == <<"objectIsInSpace">>
spaceHasObject == <<"spaceHasObject">>

None == <<"None">>
NoAction == [kind |-> "none", robot |-> None, from |-> None, to |-> None]
NoFile == [exists |-> FALSE, lines |-> <<>>]
File(lines) == [exists |-> TRUE, lines |-> lines]

IsPrefix(a, b) == Len(a) <= Len(b) /\ SubSeq(b, 1, Len(a)) = a
IsSuffix(a, b) == Len(a) <= Len(b) /\ SubSeq(b, Len(b) - Len(a) + 1, Len(b)) = a

-----------------------------------------------------------------------------
(* Schema and reasoner *)

SchemaClasses == {Robot, Space}
ObjectProperties == {robotIsInSpace, objectIsInSpace, spaceHasObject}

\* robotIsInSpace(robot, space) -> objectIsInSpace(robot, space)
SubPropertyOf == {<<robotIsInSpace, objectIsInSpace>>}
\* objectIsInSpace(robot, space) -> spaceHasObject(space, robot)
InverseOf == {<<objectIsInSpace, spaceHasObject>>, <<spaceHasObject, objectIsInSpace>>}

SubInferences(T) ==
    {<<x[1][1], x[2][2], x[1][3]>> : x \in {y \in T \X SubPropertyOf : y[1][2] = y[2][1]}}
InvInferences(T) ==
    {<<x[1][3], x[2][2], x[1][1]>> : x \in {y \in T \X InverseOf : y[1][2] = y[2][1]}}

RECURSIVE Entailed(_)
\* The object-property assertions HermiT entails from T (infer_property_values=True).
Entailed(T) ==
    LET S == T \cup SubInferences(T) \cup InvInferences(T)
    IN IF S = T THEN T ELSE Entailed(S)

\* owl.sync_reasoner_hermit inside "with ontology:": the inferred property
\* values are stored in the ontology, next to the asserted ones.
sync_reasoner_hermit(T) == Entailed(T)

\* Batch 1 of sync_to_neo4j: one node per individual of the ontology.
NodesOf(ic) == DOMAIN ic
\* Batch 2 of sync_to_neo4j: INDIRECT_<prop> of every individual, MERGEd when
\* both end nodes MATCH.
EdgesOf(T, nodes) ==
    {t \in Entailed(T) : t[2] \in ObjectProperties /\ t[1] \in nodes /\ t[3] \in nodes}

-----------------------------------------------------------------------------
(* OntologyManager: the mutations of the OWL world *)

\* ontology.search_one(iri="*<id>"): a glob on the IRI, i.e. a suffix match;
\* None when nothing matches.
Resolve(ic, id) ==
    LET m == {i \in DOMAIN ic : IsSuffix(id, i)}
    IN IF m = {} THEN None ELSE CHOOSE i \in m : TRUE

\* _set_object_properties: per property, the targets that resolve; setattr
\* replaces the property's values when at least one target resolved.
SetObjectProperties(ic, T, ind, ops) ==
    LET Targets(p) == {Resolve(ic, t) : t \in ops[p]} \ {None}
        setProps == {p \in DOMAIN ops : Targets(p) # {}}
    IN {t \in T : ~(t[1] = ind /\ t[2] \in setProps)}
       \cup UNION {{<<ind, p, x>> : x \in Targets(p)} : p \in setProps}

\* owl.destroy_entity
DestroyEntity(T, ind) == {t \in T : t[1] # ind /\ t[3] # ind}

Without(f, d) == [x \in DOMAIN f \ {d} |-> f[x]]
With(f, d, v) == [x \in DOMAIN f \cup {d} |-> IF x = d THEN v ELSE f[x]]

RECURSIVE BatchPass1_abort(_, _)
\* Pass 1 leaving the loop at the first item it cannot add.
BatchPass1_abort(ic, items) ==
    IF items = <<>> THEN ic
    ELSE LET d == Head(items)
         IN IF Resolve(ic, d.id) # None \/ d.class \notin SchemaClasses
            THEN ic
            ELSE BatchPass1_abort(With(ic, d.id, d.class), Tail(items))

RECURSIVE BatchPass1(_, _)
\* Pass 1 of add_individuals_batch: create the individuals, skipping an id
\* that exists and a class that is not in the schema.
BatchPass1(ic, items) ==
    IF items = <<>> THEN ic
    ELSE LET d == Head(items)
             ic2 == IF Resolve(ic, d.id) # None \/ d.class \notin SchemaClasses
                    THEN ic ELSE With(ic, d.id, d.class)
         IN BatchPass1(ic2, Tail(items))

RECURSIVE BatchCounts(_, _)
\* added_count and failed_count of pass 1, as <<added, failed>>.
BatchCounts(ic, items) ==
    IF items = <<>> THEN <<0, 0>>
    ELSE LET d == Head(items)
             fails == Resolve(ic, d.id) # None \/ d.class \notin SchemaClasses
             rest == BatchCounts(IF fails THEN ic ELSE With(ic, d.id, d.class), Tail(items))
         IN IF fails THEN <<rest[1], rest[2] + 1>> ELSE <<rest[1] + 1, rest[2]>>

RECURSIVE BatchPass2(_, _, _)
\* Pass 2 of add_individuals_batch: set the properties of every item whose
\* id resolves to an individual.
BatchPass2(ic, T, items) ==
    IF items = <<>> THEN T
    ELSE LET d == Head(items)
             ind == Resolve(ic, d.id)
             T2 == IF ind = None THEN T
                   ELSE SetObjectProperties(ic, T, ind, d.object_properties)
         IN BatchPass2(ic, T2, Tail(items))

-----------------------------------------------------------------------------
(* TTL files: a file is a sequence of lines.  A line carries its two       *)
(* ":"-prefixed tokens a and b, whether it reads "rdf:type" between them   *)
(* (k = "type": ":a rdf:type :b ;", else "    :a :b ;") and its end mark.  *)

TypeLine(s, c, e) == [k |-> "type", a |-> s, b |-> c, e |-> e]
PropLine(p, o, e) == [k |-> "prop", a |-> p, b |-> o, e |-> e]

\* data/envs/<env>/dynamic.ttl: the robot block json_to_dynamic_ttl.py writes,
\* kept to its rdf:type line and its robotIsInSpace line
EnvDynamicTtl == << TypeLine(robot1, Robot, ";"),
                    PropLine(robotIsInSpace, corridor_14, ".") >>
\* data/envs/<env>/static.ttl: the spaces
EnvStaticTtl == << TypeLine(corridor_14, Space, "."),
                   TypeLine(kitchen_13, Space, ".") >>

\* rdflib Graph.parse(format="turtle"): the triples of a file; a property
\* line belongs to the subject of the last "rdf:type" line above it.
rdfType == <<"rdf:type">>
SubjectAt(lines, i) ==
    LET js == {j \in 1..i : lines[j].k = "type"}
    IN IF js = {} THEN None ELSE lines[CHOOSE j \in js : \A j2 \in js : j2 <= j].a
ParseTurtle(lines) ==
    {<<lines[i].a, rdfType, lines[i].b>> : i \in {j \in 1..Len(lines) : lines[j].k = "type"}}
    \cup {<<SubjectAt(lines, i), lines[i].a, lines[i].b>> :
             i \in {j \in 1..Len(lines) : lines[j].k = "prop"}}

\* load_instances_from_ttl: one IndividualData per typed subject, its
\* URIRef-valued predicates folded into object_properties.
IndividualDataOf(G, subj) ==
    LET ps == {t[2] : t \in {u \in G : u[1] = subj /\ u[2] # rdfType}}
    IN [id |-> subj,
        class |-> (CHOOSE t \in G : t[1] = subj /\ t[2] = rdfType)[3],
        object_properties |-> [p \in ps |-> {t[3] : t \in {u \in G : u[1] = subj /\ u[2] = p}}]]

RECURSIVE SubjectsInOrder(_, _)
SubjectsInOrder(lines, i) ==
    IF i > Len(lines) THEN <<>>
    ELSE IF lines[i].k = "type" THEN <<lines[i].a>> \o SubjectsInOrder(lines, i + 1)
    ELSE SubjectsInOrder(lines, i + 1)

load_instances_from_ttl(lines) ==
    LET G == ParseTurtle(lines)
        subs == SubjectsInOrder(lines, 1)
    IN [i \in 1..Len(subs) |-> IndividualDataOf(G, subs[i])]

-----------------------------------------------------------------------------
(* The ontology server: one handler per request.  The endpoints are        *)
(* "async def" functions that never await, run by one uvicorn process:     *)
(* the event loop runs a handler to completion before it starts another.   *)
(* Every session.run of a handler is its own Neo4j transaction, visible to *)
(* other Neo4j clients as soon as it is made.                              *)

\* The handlers as plain "def" functions: FastAPI would run each in a worker
\* thread, whatever the others do.
LoopIdle_threadpool == TRUE

LoopIdle == \A s \in Slots : hpc[s] = "idle"

\* A request in progress: its endpoint, the DELETE triples step 2 of
\* execute_sparql_update reads, who sent it, and which call of the agent it answers.
Request(op, del, origin, tag) == [op |-> op, del |-> del, origin |-> origin, tag |-> tag]
NoRequest == Request("none", {}, "none", <<0, 0>>)

\* The connection a new request is accepted on: the first one that is free.
FreeSlot(s) == hpc[s] = "idle" /\ \A t \in 1..(s - 1) : hpc[t] # "idle"

Start(s, req, pc, res) ==
    /\ hpc' = [hpc EXCEPT ![s] = pc]
    /\ hreq' = [hreq EXCEPT ![s] = req]
    /\ hres' = [hres EXCEPT ![s] = res]

\* add_individual that only looks the class up.
Rejected_class_only(ic, d) == d.class \notin SchemaClasses

\* The two early returns of add_individual: "Class ... not found" and
\* "Individual ... already exists".
Rejected(ic, d) == d.class \notin SchemaClasses \/ Resolve(ic, d.id) # None

\* POST /individuals -> OntologyManager.add_individual
add_individual(s, d) ==
    /\ FreeSlot(s)
    /\ LoopIdle
    /\ IF Rejected(indClass, d)
       THEN /\ Start(s, Request("add_individual", {}, "client", <<0, 0>>), "respond", "error")
            /\ UNCHANGED <<indClass, triples, assertedFacts>>
       ELSE /\ indClass' = With(indClass, d.id, d.class)
            /\ triples' = SetObjectProperties(indClass', triples, d.id, d.object_properties)
            /\ assertedFacts' =
                   SetObjectProperties(indClass', assertedFacts, d.id, d.object_properties)
            /\ Start(s, Request("add_individual", {}, "client", <<0, 0>>), "reason", "none")
    /\ UNCHANGED <<projNodes, projEdges, readObs>>
    /\ UNCHANGED <<wfVars, faults, call, ret>>

\* POST /individuals whose data_properties hold a value setattr refuses (a
\* scalar for a property that is not functional, a value with no datatype):
\* the individual is created, _set_data_properties raises, the except branch
\* returns an error; nothing is undone and nothing is synced.
add_individual_raises(s, d) ==
    /\ FreeSlot(s)
    /\ LoopIdle
    /\ ~Rejected(indClass, d)
    /\ indClass' = With(indClass, d.id, d.class)
    /\ Start(s, Request("add_individual", {}, "client", <<0, 0>>), "respond", "error")
    /\ UNCHANGED <<triples, assertedFacts, projNodes, projEdges, readObs>>
    /\ UNCHANGED <<wfVars, faults, call, ret>>

\* POST /individuals/batch -> OntologyManager.add_individuals_batch
BatchApply(s, op, items) ==
    /\ indClass' = BatchPass1(indClass, items)
    /\ triples' = BatchPass2(indClass', triples, items)
    /\ assertedFacts' = BatchPass2(indClass', assertedFacts, items)
    /\ Start(s, Request(op, {}, "client", <<0, 0>>), "reason", "none")

add_individuals_batch(s, items) ==
    /\ FreeSlot(s)
    /\ LoopIdle
    /\ BatchApply(s, "add_individuals_batch", items)
    /\ UNCHANGED <<projNodes, projEdges, readObs>>
    /\ UNCHANGED <<wfVars, faults, call, ret>>

\* POST /load_ttl -> OntologyManager.load_instances_from_ttl
load_ttl(s, name) ==
    /\ FreeSlot(s)
    /\ LoopIdle
    /\ IF ~envFiles[name].exists
       THEN /\ Start(s, Request("load_ttl", {}, "client", <<0, 0>>), "respond", "error")
            /\ UNCHANGED <<indClass, triples, assertedFacts>>
       ELSE BatchApply(s, "load_ttl", load_instances_from_ttl(envFiles[name].lines))
    /\ UNCHANGED <<projNodes, projEdges, readObs>>
    /\ UNCHANGED <<wfVars, faults, call, ret>>

\* PUT /individuals/{id} -> OntologyManager.update_individual
update_individual(s, id, ops) ==
    /\ FreeSlot(s)
    /\ LoopIdle
    /\ LET ind == Resolve(indClass, id)
           req == Request("update_individual", {}, "client", <<0, 0>>)
       IN IF ind = None
          THEN /\ Start(s, req, "respond", "error")
               /\ UNCHANGED <<triples, assertedFacts>>
          ELSE /\ triples' = SetObjectProperties(indClass, triples, ind, ops)
               /\ assertedFacts' = SetObjectProperties(indClass, assertedFacts, ind, ops)
               /\ Start(s, req, "reason", "none")
    /\ UNCHANGED <<indClass, projNodes, projEdges, readObs>>
    /\ UNCHANGED <<wfVars, faults, call, ret>>

\* DELETE /individuals/{id} -> OntologyManager.delete_individual
delete_individual(s, id) ==
    /\ FreeSlot(s)
    /\ LoopIdle
    /\ LET ind == Resolve(indClass, id)
           req == Request("delete_individual", {}, "client", <<0, 0>>)
       IN IF ind = None
          THEN /\ Start(s, req, "respond", "error")
               /\ UNCHANGED <<indClass, triples, assertedFacts>>
          ELSE /\ indClass' = Without(indClass, ind)
               /\ triples' = DestroyEntity(triples, ind)
               /\ assertedFacts' = DestroyEntity(assertedFacts, ind)
               /\ Start(s, req, "reason", "none")
    /\ UNCHANGED <<projNodes, projEdges, readObs>>
    /\ UNCHANGED <<wfVars, faults, call, ret>>

\* POST /sync -> OntologyManager.sync_to_neo4j()
sync_ontology(s) ==
    /\ FreeSlot(s)
    /\ LoopIdle
    /\ Start(s, Request("sync", {}, "client", <<0, 0>>), "reason", "none")
    /\ UNCHANGED <<indClass, triples, assertedFacts, projNodes, projEdges, readObs>>
    /\ UNCHANGED <<wfVars, faults, call, ret>>

\* execute_sparql_update, "Apply DELETE operations" / "Apply INSERT operations":
\* a triple is applied when its subject and object resolve to individuals and
\* its predicate names a property of the ontology.
Applicable(T) ==
    {t \in T : /\ t[2] \in ObjectProperties
               /\ Resolve(indClass, t[1]) # None
               /\ Resolve(indClass, t[3]) # None}
Resolved(T) == {<<Resolve(indClass, t[1]), t[2], Resolve(indClass, t[3])>> : t \in Applicable(T)}
ApplyUpdate(T, upd) == (T \ Resolved(upd.del)) \cup Resolved(upd.ins)

\* The namespace of the ontology, as the agent and rdflib hold it: it ends
\* with "#".  A term of a query is an IRI: symbols, "#" among them.
namespace == <<"http://www.semanticweb.org/namh_woo/ontologies/2025/9/untitled-ontology-10", "#">>
\* rdflib's URIRef of a name that the TTL file writes with the prefix ":"
URIRef(name) == namespace \o name
UriTriples(T) == {<<URIRef(t[1]), URIRef(t[2]), URIRef(t[3])>> : t \in T}
\* str.split('#')[-1]
LocalName(term) ==
    LET hashes == {i \in DOMAIN term : term[i] = "#"}
        last == IF hashes = {} THEN 0 ELSE CHOOSE i \in hashes : \A j \in hashes : j <= i
    IN  SubSeq(term, last + 1, Len(term))
LocalTriple(t) == <<LocalName(t[1]), LocalName(t[2]), LocalName(t[3])>>

\* The text of a SPARQL UPDATE is a sequence of lines: a keyword line
\* ("DELETE {", "INSERT {", "INSERT DATA {", "}", "WHERE { }") or a line
\* "<s> <p> <o> ." holding the triple t of IRIs.
KeywordLine(k) == [k |-> k, t |-> <<>>]
TripleLine(t) == [k |-> "triple", t |-> t]

RECURSIVE TripleLines(_)
TripleLines(T) ==
    IF T = {} THEN <<>>
    ELSE LET t == CHOOSE x \in T : TRUE
         IN <<TripleLine(t)>> \o TripleLines(T \ {t})

\* generate_sparql_update's query text: DELETE { } INSERT { } WHERE { }, a
\* DELETE block alone, or INSERT DATA { } when nothing is deleted.
SparqlText(q) ==
    (IF q.del # {}
     THEN <<KeywordLine("DELETE {")>> \o TripleLines(q.del) \o <<KeywordLine("}")>>
     ELSE <<>>)
    \o (IF q.ins # {}
        THEN <<KeywordLine(IF q.del # {} THEN "INSERT {" ELSE "INSERT DATA {")>>
             \o TripleLines(q.ins) \o <<KeywordLine("}")>>
        ELSE <<>>)
    \o (IF q.del # {} /\ q.ins # {} THEN <<KeywordLine("WHERE { }")>> ELSE <<>>)

\* The section a line is read in: the last line before it holding DELETE or
\* INSERT, unless a line starting with "}" came after that one.
InSection(lines, i, sec) ==
    \E m \in 1..i :
        /\ m < i
        /\ lines[m].k \in (IF sec = "delete" THEN {"DELETE {"} ELSE {"INSERT {", "INSERT DATA {"})
        /\ \A x \in (m + 1)..i :
               x < i => lines[x].k \notin {"DELETE {", "INSERT {", "INSERT DATA {", "}"}

\* execute_sparql_update's line scan: the triple lines of the DELETE section
\* and those of the INSERT section, each term cut down to what follows its
\* last "#".  No text makes it fail.
ParseSparqlUpdate(lines) ==
    [del |-> {LocalTriple(lines[i].t) : i \in {j \in 1..Len(lines) :
                 lines[j].k = "triple" /\ InSection(lines, j, "delete")}},
     ins |-> {LocalTriple(lines[i].t) : i \in {j \in 1..Len(lines) :
                 lines[j].k = "triple" /\ InSection(lines, j, "insert")}}]

\* POST /sparql/update -> execute_sparql_update, up to the end of step 1
execute_sparql_update(s, text, origin, tag) ==
    /\ FreeSlot(s)
    /\ LoopIdle
    /\ triples' = ApplyUpdate(triples, ParseSparqlUpdate(text))
    /\ assertedFacts' = ApplyUpdate(assertedFacts, ParseSparqlUpdate(text))
    /\ Start(s, Request("sparql_update", ParseSparqlUpdate(text).del, origin, tag),
             "neo4j_pre", "none")
    /\ UNCHANGED <<indClass, projNodes, projEdges, readObs>>


\* execute_sparql_update step 2: the robot and the old location are read from
\* a DELETE line naming robotIsInSpace; every edge between the two nodes, in
\* both directions, is deleted from Neo4j.
Neo4jPreDelete(s) ==
    /\ hpc[s] = "neo4j_pre"
    /\ LET cand == {t \in hreq[s].del : t[2] = robotIsInSpace}
       IN IF cand = {}
          THEN UNCHANGED projEdges
          ELSE \E t \in cand :
                  projEdges' = {e \in projEdges :
                                   ~ \/ (e[1] = t[1] /\ e[3] = t[3])
                                     \/ (e[1] = t[3] /\ e[3] = t[1])}
    /\ hpc' = [hpc EXCEPT ![s] = "reason"]
    /\ UNCHANGED <<indClass, triples, assertedFacts, projNodes, hreq, hres, readObs>>
    /\ UNCHANGED <<wfVars, faults, call, ret>>

\* The reasoner run: sync_to_neo4j(skip_reasoning=False), or step 3 of
\* execute_sparql_update.
Reason(s) ==
    /\ hpc[s] = "reason"
    /\ triples' = sync_reasoner_hermit(triples)
    /\ hpc' = [hpc EXCEPT ![s] = "sync_clear"]
    /\ UNCHANGED <<indClass, assertedFacts, projNodes, projEdges, hreq, hres, readObs>>
    /\ UNCHANGED <<wfVars, faults, call, ret>>

\* sync_to_neo4j: "MATCH (i:Individual) DETACH DELETE i"
SyncClear(s) ==
    /\ hpc[s] = "sync_clear"
    /\ projNodes' = {}
    /\ projEdges' = {}
    /\ hpc' = [hpc EXCEPT ![s] = "sync_nodes"]
    /\ UNCHANGED <<indClass, triples, assertedFacts, hreq, hres, readObs>>
    /\ UNCHANGED <<wfVars, faults, call, ret>>

\* sync_to_neo4j, batch 1
SyncNodes(s) ==
    /\ hpc[s] = "sync_nodes"
    /\ projNodes' = projNodes \cup NodesOf(indClass)
    /\ hpc' = [hpc EXCEPT ![s] = "sync_edges"]
    /\ UNCHANGED <<indClass, triples, assertedFacts, projEdges, hreq, hres, readObs>>
    /\ UNCHANGED <<wfVars, faults, call, ret>>

\* sync_to_neo4j, batch 2, and its "status": "success"
SyncEdges(s) ==
    /\ hpc[s] = "sync_edges"
    /\ projEdges' = projEdges \cup EdgesOf(triples, projNodes)
    /\ hpc' = [hpc EXCEPT ![s] = "respond"]
    /\ hres' = [hres EXCEPT ![s] = "success"]
    /\ UNCHANGED <<indClass, triples, assertedFacts, projNodes, hreq, readObs>>
    /\ UNCHANGED <<wfVars, faults, call, ret>>

\* What a handler returns when the reasoner or a Neo4j statement raises:
\* sync_to_neo4j catches and returns {"status": "error"}; /sync and
\* /sparql/update turn that into HTTP 500, the OntologyManager operations
\* ignore sync_to_neo4j's result and return success.
StatusOnException(op) == IF op \in {"sync", "sparql_update"} THEN "error" ELSE "success"

HandlerRaises(s) ==
    /\ hpc[s] \in {"neo4j_pre", "reason", "sync_clear", "sync_nodes", "sync_edges"}
    /\ faults < MaxFaults
    /\ faults' = faults + 1
    /\ UNCHANGED <<call, ret>>
    /\ hpc' = [hpc EXCEPT ![s] = "respond"]
    /\ hres' = [hres EXCEPT ![s] = StatusOnException(hreq[s].op)]
    /\ UNCHANGED <<indClass, triples, assertedFacts, projNodes, projEdges, hreq, readObs>>
    /\ UNCHANGED wfVars

\* The handler returns; the agent's requests.post receives the status when
\* it still waits for this request.
Respond(s) ==
    /\ hpc[s] = "respond"
    /\ hpc' = [hpc EXCEPT ![s] = "idle"]
    /\ hreq' = [hreq EXCEPT ![s] = NoRequest]
    /\ hres' = [hres EXCEPT ![s] = "none"]
    /\ IF hreq[s].origin = "agent" /\ node = "wu_wait" /\ hreq[s].tag = <<runs, wf.executed_action_count>>
       THEN httpResp' = hres[s]
       ELSE UNCHANGED httpResp
    /\ UNCHANGED <<indClass, triples, assertedFacts, projNodes, projEdges, readObs>>
    /\ UNCHANGED <<node, wf, httpReq, dynamicTtl, staticTtl, logs, writeCount, envFiles, runs, faults, call, ret>>

\* GraphTools (get_object_info, filter_objects, find_path) and the PDDL
\* generator query Neo4j through their own driver, at any time.
\* What get_object_info(robot1) returned: whether the node was found, and the
\* targets of its outgoing robotIsInSpace relationships.
NoObs == [found |-> FALSE, at |-> {}, seen |-> FALSE]
\* A sync has deleted the Individual nodes and has not finished recreating them.
SyncInProgress == \E s \in Slots : hpc[s] \in {"sync_nodes", "sync_edges"}
\* The projection holds every node and edge of the reasoned model.
ProjectionComplete ==
    /\ NodesOf(indClass) \subseteq projNodes
    /\ EdgesOf(triples, NodesOf(indClass)) \subseteq projEdges
ProjectionRead ==
    /\ readObs' = [found |-> robot1 \in projNodes,
                   at |-> {e[3] : e \in {x \in projEdges : x[1] = robot1 /\ x[2] = robotIsInSpace}},
                   seen |-> TRUE]
    /\ UNCHANGED ksVars
    /\ UNCHANGED <<wfVars, faults, call, ret>>

-----------------------------------------------------------------------------
(* world_update.py: the TTL rewrite, the diff and the SPARQL UPDATE *)

\* f":{name}" in line
Contains(line, name) == IsPrefix(name, line.a) \/ IsPrefix(name, line.b)
\* line.replace(f":{from}", f":{to}")
ReplaceToken(tok, from, to) ==
    IF IsPrefix(from, tok) THEN to \o SubSeq(tok, Len(from) + 1, Len(tok)) ELSE tok
ReplaceInLine(line, from, to) ==
    [line EXCEPT !.a = ReplaceToken(line.a, from, to), !.b = ReplaceToken(line.b, from, to)]

RECURSIVE ScanRobotBlock(_, _, _, _, _)
\* The first loop of save_incremental_update_to_ttl: the index of the line
\* it rewrites, 0 when it rewrites none.  start is robot_block_start (0: unset).
ScanRobotBlock(lines, i, start, robot_id, from) ==
    IF i > Len(lines) THEN 0
    ELSE LET line == lines[i]
             prev == lines[IF i = 1 THEN 1 ELSE i - 1]
             start2 == IF Contains(line, robot_id) /\ (line.k = "type" \/ prev.k = "type")
                       THEN i ELSE start
         IN IF start2 > 0 /\ Contains(line, robotIsInSpace)
            THEN IF Contains(line, from) THEN i
                 ELSE IF line.e = ";" /\ i > start2 + 10
                      THEN ScanRobotBlock(lines, i + 1, 0, robot_id, from)
                      ELSE ScanRobotBlock(lines, i + 1, start2, robot_id, from)
            ELSE ScanRobotBlock(lines, i + 1, start2, robot_id, from)

\* The "alternative search": the first line with robotIsInSpace and the old location.
AlternativeSearch(lines, from) ==
    LET js == {j \in 1..Len(lines) : Contains(lines[j], robotIsInSpace) /\ Contains(lines[j], from)}
    IN IF js = {} THEN 0 ELSE CHOOSE j \in js : \A j2 \in js : j <= j2

\* save_incremental_update_to_ttl: the new file, NoFile when it returns False.
save_incremental_update_to_ttl(original, robot_id, from, to) ==
    IF ~original.exists THEN NoFile
    ELSE LET lines == original.lines
             i1 == ScanRobotBlock(lines, 1, 0, robot_id, from)
             i == IF i1 > 0 THEN i1 ELSE AlternativeSearch(lines, from)
         IN IF i = 0 THEN NoFile
            ELSE File([lines EXCEPT ![i] = ReplaceInLine(lines[i], from, to)])

\* extract_changes_with_rdflib
AddedTriples(original, updated) == ParseTurtle(updated.lines) \ ParseTurtle(original.lines)
RemovedTriples(original, updated) == ParseTurtle(original.lines) \ ParseTurtle(updated.lines)

\* action/relationship_mapping.json: asserted predicate -> inferred relationships
RelationshipMapping ==
    robotIsInSpace :> {[relationship |-> objectIsInSpace, type |-> "subproperty"],
                       [relationship |-> spaceHasObject, type |-> "inverse_inference"]}
\* asserted_predicates of generate_sparql_update
AssertedPredicates ==
    {robotIsInSpace, <<"artifactIsInSpace">>, <<"isInsideOf">>, <<"isOntopOf">>,
     <<"carries">>, <<"spaceIsInStorey">>}

\* f"{namespace}#{name}" for the subject, the object and the inferred predicate
InferredUri(name) == namespace \o <<"#">> \o name

get_inferred_relationships_for_delete(p, subj, obj, mapping) ==
    IF p \notin DOMAIN mapping THEN {}
    ELSE {IF r.type = "inverse_inference"
          THEN <<InferredUri(obj), InferredUri(r.relationship), InferredUri(subj)>>
          ELSE <<InferredUri(subj), InferredUri(r.relationship), InferredUri(obj)>> :
             r \in mapping[p]}

\* generate_sparql_update: the DELETE and INSERT blocks, their terms as
\* IRIs; the query string is empty when both are.  The inferred triples are
\* built from the local names of a removed triple.  hasMapping:
\* relationship_mapping.json was found.
generate_sparql_update(added, removed, hasMapping) ==
    [del |-> UriTriples(removed) \cup
             (IF hasMapping
              THEN UNION {get_inferred_relationships_for_delete(
                              LocalName(URIRef(t[2])), LocalName(URIRef(t[1])),
                              LocalName(URIRef(t[3])), RelationshipMapping) :
                             t \in {u \in removed : LocalName(URIRef(u[2])) \in AssertedPredicates}}
              ELSE {}),
     ins |-> UriTriples(added)]
EmptyQuery(q) == q.del = {} /\ q.ins = {}

-----------------------------------------------------------------------------
(* The workflow: START -> plan_reader -> next_action -> world_update ->    *)
(* should_continue -> next_action | END                                    *)

Versions == 0..(MaxPlanLen + 1)

Move(r, f, t) == [kind |-> "move", robot |-> r, from |-> f, to |-> t]
\* "(move robot1 corridor_14)": starts with "(move", parse_move_action raises ValueError
BadMove == [kind |-> "badmove", robot |-> None, from |-> None, to |-> None]
\* "(pickup ...)": any action that does not start with "(move"
OtherAction == [kind |-> "other", robot |-> None, from |-> None, to |-> None]

PlanActions ==
    {Move(robot1, corridor_14, kitchen_13), Move(robot1, kitchen_13, corridor_14),
     Move(robot1, corridor_1, kitchen_13), Move(robot1, kitchen_13, kitchen_13),
     BadMove, OtherAction}
Plans == UNION {[1..n -> PlanActions] : n \in 0..MaxPlanLen}

\* The state a workflow run starts from: no key of OverallState is set.
FreshState ==
    [plan_actions |-> <<>>, remaining_set |-> FALSE, remaining_actions |-> <<>>,
     current_action |-> NoAction, last_executed_action |-> NoAction,
     execution_status |-> "unset", executed_action_count |-> 0]

NoHttpReq == [pending |-> FALSE, upd |-> [del |-> {}, ins |-> {}], tag |-> <<0, 0>>]

\* writeCount counts up to MaxWrites
Bump(n) == IF n < MaxWrites THEN n + 1 ELSE MaxWrites

StartWorkflow ==
    /\ node \in {"START", "END"}
    /\ runs < MaxRuns
    /\ runs' = runs + 1
    /\ node' = "plan_reader"
    /\ wf' = FreshState
    /\ UNCHANGED <<httpReq, httpResp, dynamicTtl, staticTtl, logs, writeCount, envFiles>>
    /\ UNCHANGED ksVars
    /\ UNCHANGED <<readObs, faults, call, ret>>

\* plan_reader with action/plan/solution.plan missing: FileNotFoundError,
\* only a message is returned.
plan_reader_no_file ==
    /\ node = "plan_reader"
    /\ node' = "next_action"
    /\ UNCHANGED <<wf, httpReq, httpResp, dynamicTtl, staticTtl, logs, writeCount, envFiles, runs>>
    /\ UNCHANGED ksVars
    /\ UNCHANGED <<readObs, faults, call, ret>>

\* plan_reader: parse the plan, copy the environment's TTL files to version 0.
plan_reader(plan) ==
    /\ node = "plan_reader"
    /\ node' = "next_action"
    /\ wf' = [wf EXCEPT !.plan_actions = plan]
    /\ IF envFiles["dynamic"].exists
       THEN /\ dynamicTtl' = [dynamicTtl EXCEPT ![0] = envFiles["dynamic"]]
            /\ writeCount' = [writeCount EXCEPT ![0] = Bump(@)]
       ELSE UNCHANGED <<dynamicTtl, writeCount>>
    /\ staticTtl' = IF envFiles["static"].exists THEN staticTtl \cup {0} ELSE staticTtl
    /\ UNCHANGED <<httpReq, httpResp, logs, envFiles, runs>>
    /\ UNCHANGED ksVars
    /\ UNCHANGED <<readObs, faults, call, ret>>

next_action ==
    /\ node = "next_action"
    /\ node' = "world_update"
    /\ LET remaining == IF wf.remaining_set THEN wf.remaining_actions ELSE wf.plan_actions
       IN IF wf.plan_actions = <<>> /\ remaining = <<>>
          THEN UNCHANGED wf
          ELSE IF remaining = <<>>
          THEN wf' = [wf EXCEPT !.current_action = NoAction,
                                !.remaining_set = TRUE, !.remaining_actions = <<>>]
          ELSE wf' = [wf EXCEPT !.current_action = Head(remaining),
                                !.remaining_set = TRUE, !.remaining_actions = Tail(remaining)]
    /\ UNCHANGED <<httpReq, httpResp, dynamicTtl, staticTtl, logs, writeCount, envFiles, runs>>
    /\ UNCHANGED ksVars
    /\ UNCHANGED <<readObs, faults, call, ret>>

\* should_continue without its test of execution_status
should_continue_ignoring_failure(st) ==
    IF st.remaining_actions # <<>> THEN "next_action" ELSE "END"

\* should_continue on the state world_update leaves
should_continue(st) ==
    IF st.execution_status = "failed" THEN "END"
    ELSE IF st.remaining_actions # <<>> THEN "next_action"
    ELSE "END"

\* a version counted from 1: the first action would write dynamic_2.ttl
NextVersion_skipping(executed_count) == executed_count + 2

\* version = executed_count + 1
NextVersion(executed_count) == executed_count + 1

Failed(st) == [st EXCEPT !.execution_status = "failed"]

\* world_update taking an action that is not a move for a failed one
world_update_skip_failing ==
    /\ node = "world_update"
    /\ wf.current_action.kind \in {"none", "other"}
    /\ wf' = Failed(wf)
    /\ node' = should_continue(wf')
    /\ UNCHANGED <<httpReq, httpResp, dynamicTtl, staticTtl, logs, writeCount, envFiles, runs>>
    /\ UNCHANGED ksVars
    /\ UNCHANGED <<readObs, faults, call, ret>>

\* world_update: no current action, or an action that is not a move: only a
\* message is returned.
world_update_skip ==
    /\ node = "world_update"
    /\ wf.current_action.kind \in {"none", "other"}
    /\ node' = should_continue(wf)
    /\ UNCHANGED <<wf, httpReq, httpResp, dynamicTtl, staticTtl, logs, writeCount, envFiles, runs>>
    /\ UNCHANGED ksVars
    /\ UNCHANGED <<readObs, faults, call, ret>>

\* world_update: parse_move_action raises ValueError; the handler writes the
\* error log and returns failed.
world_update_parse_error ==
    /\ node = "world_update"
    /\ wf.current_action.kind = "badmove"
    /\ logs' = [logs EXCEPT ![wf.executed_action_count + 1] = "failed"]
    /\ wf' = Failed(wf)
    /\ node' = should_continue(wf')
    /\ UNCHANGED <<httpReq, httpResp, dynamicTtl, staticTtl, writeCount, envFiles, runs>>
    /\ UNCHANGED ksVars
    /\ UNCHANGED <<readObs, faults, call, ret>>

\* world_update for a move, steps 1 to 5 up to requests.post
world_update_move ==
    /\ node = "world_update"
    /\ wf.current_action.kind = "move"
    /\ LET a == wf.current_action
           executed_count == wf.executed_action_count
           version == NextVersion(executed_count)
           original == dynamicTtl[executed_count]
           updated == save_incremental_update_to_ttl(original, a.robot, a.from, a.to)
           query == generate_sparql_update(AddedTriples(original, updated),
                                           RemovedTriples(original, updated),
                                           envFiles["mapping"].exists)
       IN IF ~original.exists \/ ~updated.exists
          THEN \* "Original dynamic TTL file not found" / "Failed to update TTL file"
               /\ wf' = Failed(wf)
               /\ node' = should_continue(wf')
               /\ UNCHANGED <<httpReq, httpResp, dynamicTtl, staticTtl, writeCount>>
          ELSE /\ dynamicTtl' = [dynamicTtl EXCEPT ![version] = updated]
               /\ writeCount' = [writeCount EXCEPT ![version] = Bump(@)]
               /\ staticTtl' = IF executed_count \in staticTtl
                               THEN staticTtl \cup {version} ELSE staticTtl
               /\ IF EmptyQuery(query)
                  THEN \* "Failed to generate SPARQL UPDATE query"
                       /\ wf' = Failed(wf)
                       /\ node' = should_continue(wf')
                       /\ UNCHANGED <<httpReq, httpResp>>
                  ELSE /\ httpReq' = [pending |-> TRUE, upd |-> query,
                                      tag |-> <<runs, executed_count>>]
                       /\ httpResp' = "none"
                       /\ node' = "wu_wait"
                       /\ UNCHANGED wf
    /\ UNCHANGED <<logs, envFiles, runs>>
    /\ UNCHANGED ksVars
    /\ UNCHANGED <<readObs, faults, call, ret>>

\* send_sparql_update returned True: steps 6 to 8, the success log and the count
world_update_success ==
    /\ node = "wu_wait"
    /\ httpResp = "success"
    /\ LET new_executed_count == wf.executed_action_count + 1
       IN /\ logs' = [logs EXCEPT ![new_executed_count] = "success"]
          /\ wf' = [wf EXCEPT !.last_executed_action = wf.current_action,
                              !.execution_status = "success",
                              !.executed_action_count = new_executed_count]
    /\ node' = should_continue(wf')
    /\ httpResp' = "none"
    /\ UNCHANGED <<httpReq, dynamicTtl, staticTtl, writeCount, envFiles, runs>>
    /\ UNCHANGED ksVars
    /\ UNCHANGED <<readObs, faults, call, ret>>

\* send_sparql_update returned False: a status other than 200 came back
world_update_rejected ==
    /\ node = "wu_wait"
    /\ httpResp = "error"
    /\ wf' = Failed(wf)
    /\ node' = should_continue(wf')
    /\ httpResp' = "none"
    /\ UNCHANGED <<httpReq, dynamicTtl, staticTtl, logs, writeCount, envFiles, runs>>
    /\ UNCHANGED ksVars
    /\ UNCHANGED <<readObs, faults, call, ret>>

\* send_sparql_update returned False: requests.post raised, the connection
\* failed before the server took the request
world_update_no_connection ==
    /\ node = "wu_wait"
    /\ httpReq.pending
    /\ httpReq' = NoHttpReq
    /\ wf' = Failed(wf)
    /\ node' = should_continue(wf')
    /\ UNCHANGED <<httpResp, dynamicTtl, staticTtl, logs, writeCount, envFiles, runs>>
    /\ UNCHANGED ksVars
    /\ UNCHANGED <<readObs, faults, call, ret>>

\* send_sparql_update returned False: timeout=30 expired while the server
\* still handles the request
world_update_timeout ==
    /\ node = "wu_wait"
    /\ httpResp = "none"
    /\ \E s \in Slots : /\ hpc[s] # "idle"
                        /\ hreq[s].origin = "agent"
                        /\ hreq[s].tag = <<runs, wf.executed_action_count>>
    /\ wf' = Failed(wf)
    /\ node' = should_continue(wf')
    /\ UNCHANGED <<httpReq, httpResp, dynamicTtl, staticTtl, logs, writeCount, envFiles, runs>>
    /\ UNCHANGED ksVars
    /\ UNCHANGED <<readObs, faults, call, ret>>

\* The server takes the agent's request.
agent_sparql_update(s) ==
    /\ httpReq.pending
    /\ execute_sparql_update(s, SparqlText(httpReq.upd), "agent", httpReq.tag)
    /\ httpReq' = NoHttpReq
    /\ UNCHANGED <<node, wf, httpResp, dynamicTtl, staticTtl, logs, writeCount, envFiles, runs, faults, call, ret>>

\* Any other client's POST /sparql/update
client_sparql_update(s, text) ==
    /\ execute_sparql_update(s, text, "client", <<0, 0>>)
    /\ UNCHANGED <<wfVars, faults, call, ret>>

-----------------------------------------------------------------------------
(* Inputs of the server's clients *)

NoProperties == [p \in {} |-> {}]
IndividualData(id, class, ops) == [id |-> id, class |-> class, object_properties |-> ops]
IndividualDatas ==
    {IndividualData(robot1, Robot, NoProperties),
     IndividualData(robot1, Robot, robotIsInSpace :> {corridor_14}),
     IndividualData(robot1, Robot, robotIsInSpace :> {corridor_14, kitchen_13}),
     IndividualData(robot1, UnknownClass, NoProperties),
     IndividualData(corridor_14, Space, NoProperties),
     IndividualData(kitchen_13, Space, NoProperties)}
Batches == UNION {[1..n -> IndividualDatas] : n \in 1..MaxBatch}
UpdateIds == {robot1, kitchen_13}
UpdateProperties ==
    {robotIsInSpace :> {corridor_14}, robotIsInSpace :> {kitchen_13},
     robotIsInSpace :> {corridor_14, kitchen_13}}
DeleteIds == {robot1, corridor_14, kitchen_13}
TtlNames == {"static", "dynamic"}

\* DELETE { r robotIsInSpace from } INSERT { r robotIsInSpace to } WHERE { }
MoveUpdate(r, from, to) ==
    [del |-> {<<r, robotIsInSpace, from>>}, ins |-> {<<r, robotIsInSpace, to>>}]
\* the same with the inferred triples of the old location in the DELETE block
MoveUpdateWithInferred(r, from, to) ==
    [del |-> {<<r, robotIsInSpace, from>>, <<r, objectIsInSpace, from>>,
              <<from, spaceHasObject, r>>},
     ins |-> {<<r, robotIsInSpace, to>>}]
\* INSERT DATA { r robotIsInSpace to }
InsertData(r, to) == [del |-> {}, ins |-> {<<r, robotIsInSpace, to>>}]
ClientUpdates ==
    {MoveUpdate(robot1, corridor_14, kitchen_13), MoveUpdate(robot1, kitchen_13, corridor_14),
     MoveUpdateWithInferred(robot1, corridor_14, kitchen_13),
     MoveUpdateWithInferred(robot1, kitchen_13, corridor_14),
     InsertData(robot1, kitchen_13)}
\* What a client posts: the texts of these updates.
ClientUpdateTexts == {SparqlText([del |-> UriTriples(q.del), ins |-> UriTriples(q.ins)]) : q \in ClientUpdates}

-----------------------------------------------------------------------------
(* Specifications *)

\* The server has started with an empty instance world and an empty
\* projection; no workflow has run; action/world and action/log are empty.
\* No function is applied on its own while the server and the agent run.
NoCall == [fn |-> "none", args |-> <<>>]

\* The server has started with an empty world; the agent has not run.
InitProgram ==
    /\ indClass = [x \in {} |-> Robot]
    /\ triples = {}
    /\ assertedFacts = {}
    /\ projNodes = {}
    /\ projEdges = {}
    /\ hpc = [s \in Slots |-> "idle"]
    /\ hreq = [s \in Slots |-> NoRequest]
    /\ hres = [s \in Slots |-> "none"]
    /\ readObs = NoObs
    /\ node = "START"
    /\ wf = FreshState
    /\ httpReq = NoHttpReq
    /\ httpResp = "none"
    /\ dynamicTtl = [v \in Versions |-> NoFile]
    /\ staticTtl = {}
    /\ logs = [n \in 1..(MaxPlanLen + 1) |-> "none"]
    /\ writeCount = [v \in Versions |-> 0]
    /\ \E d \in {File(EnvDynamicTtl), NoFile}, m \in {File(<<>>), NoFile} :
          envFiles = [f \in {"dynamic", "static", "mapping"} |->
                         IF f = "dynamic" THEN d
                         ELSE IF f = "static" THEN File(EnvStaticTtl) ELSE m]
    /\ runs = 0
    /\ faults = 0

Init ==
    /\ InitProgram
    /\ call = NoCall
    /\ ret = None

\* The steps of a handler after its first, and the projection reader
ServerStep ==
    \/ \E s \in Slots : Neo4jPreDelete(s)
    \/ \E s \in Slots : Reason(s)
    \/ \E s \in Slots : SyncClear(s)
    \/ \E s \in Slots : SyncNodes(s)
    \/ \E s \in Slots : SyncEdges(s)
    \/ \E s \in Slots : HandlerRaises(s)
    \/ \E s \in Slots : Respond(s)
    \/ ProjectionRead

\* cli/load_static.py and cli/load_dynamic.py post the environment's TTL
\* files to /load_ttl before the workflow is first run.
load_environment(s, name) ==
    /\ runs = 0
    /\ load_ttl(s, name)

\* The workflow, the server it posts its updates to, and the load of the
\* environment's TTL files
Next ==
    \/ StartWorkflow
    \/ plan_reader_no_file
    \/ \E plan \in Plans : plan_reader(plan)
    \/ next_action
    \/ world_update_skip
    \/ world_update_parse_error
    \/ world_update_move
    \/ world_update_success
    \/ world_update_rejected
    \/ world_update_no_connection
    \/ world_update_timeout
    \/ \E s \in Slots : agent_sparql_update(s)
    \/ \E s \in Slots, name \in TtlNames : load_environment(s, name)
    \/ ServerStep

Spec == Init /\ [][Next]_vars

\* The server and its clients
NextKS ==
    \/ \E s \in Slots, d \in IndividualDatas : add_individual(s, d)
    \/ \E s \in Slots, d \in IndividualDatas : add_individual_raises(s, d)
    \/ \E s \in Slots, items \in Batches : add_individuals_batch(s, items)
    \/ \E s \in Slots, name \in TtlNames : load_ttl(s, name)
    \/ \E s \in Slots, id \in UpdateIds, ops \in UpdateProperties : update_individual(s, id, ops)
    \/ \E s \in Slots, id \in DeleteIds : delete_individual(s, id)
    \/ \E s \in Slots : sync_ontology(s)
    \/ \E s \in Slots, text \in ClientUpdateTexts : client_sparql_update(s, text)
    \/ ServerStep

\* The environment's files are all there.
InitKS == Init /\ \A f \in DOMAIN envFiles : envFiles[f].exists

SpecKS == InitKS /\ [][NextKS]_vars

-----------------------------------------------------------------------------
(* OntologyManager.add_individuals_batch on its own: what it does to the   *)
(* world before it syncs, applied to the worlds that batches and deletions *)
(* produce from the empty one.                                             *)

\* The server and the agent at rest while a function is applied on its own.
ProgramAtRest == InitProgram /\ \A f \in DOMAIN envFiles : envFiles[f].exists
programVars == <<ksVars, wfVars, readObs, faults>>

Call(fn, args) == [fn |-> fn, args |-> args]

RECURSIVE OnePass(_, _, _)
\* One loop that creates an item and sets its properties at once.
OnePass(ic, T, items) ==
    IF items = <<>> THEN [ic |-> ic, T |-> T]
    ELSE LET d == Head(items)
             ic2 == IF Resolve(ic, d.id) # None \/ d.class \notin SchemaClasses
                    THEN ic ELSE With(ic, d.id, d.class)
             ind == Resolve(ic2, d.id)
             T2 == IF ind = None THEN T
                   ELSE SetObjectProperties(ic2, T, ind, d.object_properties)
         IN OnePass(ic2, T2, Tail(items))

add_individuals_batch_one_pass(ic, T, items) ==
    LET c == BatchCounts(ic, items)
    IN [ic |-> OnePass(ic, T, items).ic, T |-> OnePass(ic, T, items).T,
        added |-> c[1], failed |-> c[2]]

\* The batch with a pass 1 that stops at the first item it cannot add.
add_individuals_batch_aborting(ic, T, items) ==
    LET ic2 == BatchPass1_abort(ic, items)
        c == BatchCounts(ic, items)
    IN [ic |-> ic2, T |-> BatchPass2(ic2, T, items),
        added |-> c[1], failed |-> c[2]]

\* add_individuals_batch up to its sync: the individuals and the triples it
\* leaves, and the counts it returns.
add_individuals_batch_result(ic, T, items) ==
    LET ic2 == BatchPass1(ic, items)
        c == BatchCounts(ic, items)
    IN [ic |-> ic2, T |-> BatchPass2(ic2, T, items),
        added |-> c[1], failed |-> c[2]]

EmptyWorld == [ic |-> [x \in {} |-> Robot], T |-> {}, added |-> 0, failed |-> 0]

apply_add_individuals_batch(items) ==
    /\ call' = Call("add_individuals_batch", <<ret.ic, ret.T, items>>)
    /\ ret' = add_individuals_batch_result(ret.ic, ret.T, items)
    /\ UNCHANGED programVars

apply_delete_individual(id) ==
    /\ Resolve(ret.ic, id) # None
    /\ call' = Call("delete_individual", <<ret.ic, ret.T, id>>)
    /\ ret' = [ic |-> Without(ret.ic, Resolve(ret.ic, id)),
               T |-> DestroyEntity(ret.T, Resolve(ret.ic, id)),
               added |-> 0, failed |-> 0]
    /\ UNCHANGED programVars

InitBatch == ProgramAtRest /\ call = NoCall /\ ret = EmptyWorld

NextBatch ==
    \/ \E items \in Batches : apply_add_individuals_batch(items)
    \/ \E id \in DeleteIds : apply_delete_individual(id)

SpecBatch == InitBatch /\ [][NextBatch]_vars

-----------------------------------------------------------------------------
(* The PDDL problem synthesizer (agent/tools/pddl_plan.py with             *)
(* pddl/scripts/pddl_generator.py and pddl_writer.py) on its own: from the *)
(* projection and the locations a goal needs to the location universe, the *)
(* hasPathTo, distance and isOpenDoor facts of the problem's :init.        *)

MaxLocs == 4
MaxDoors == 1

\* Location ids, in the order sorted() gives them.
Locs == 1..MaxLocs
LocPairs == {p \in Locs \X Locs : p[1] < p[2]}

\* No key is related to the goal's artifacts.
NoKey == 0

\* The projection as the synthesizer queries it: the hasPathTo relationships
\* (one pair stands for both directions), the nodes labelled Door (the
\* others are labelled Space) and what each Door node stores as isOpenDoor.
Projections ==
    UNION {{[hasPathTo |-> E, doors |-> D, isOpenDoor |-> o] :
               E \in SUBSET LocPairs, o \in [D -> {"True", "False", "None"}]} :
           D \in {X \in SUBSET Locs : Cardinality(X) <= MaxDoors}}

Adjacent(G, a, b) == <<a, b>> \in G.hasPathTo \/ <<b, a>> \in G.hasPathTo

RECURSIVE PathsFrom(_, _, _, _)
\* The paths from a to b along hasPathTo, either way, through no node of seen.
PathsFrom(G, a, b, seen) ==
    IF a = b THEN {<<a>>}
    ELSE UNION {{<<a>> \o q : q \in PathsFrom(G, n, b, seen \cup {a})} :
                   n \in {x \in Locs \ (seen \cup {a}) : Adjacent(G, a, x)}}

\* A query that returns any path between the two nodes.
shortestPath_any(G, a, b) == PathsFrom(G, a, b, {})

\* Cypher's shortestPath((a)-[:hasPathTo*1..50]-(b)): the paths it may return.
shortestPath(G, a, b) ==
    LET P == PathsFrom(G, a, b, {})
    IN {q \in P : \A r \in P : Len(q) <= Len(r)}

RECURSIVE SortedPairs(_)
\* The pairs of get_locations_with_paths, in the order its loops list them.
SortedPairs(P) ==
    IF P = {} THEN <<>>
    ELSE LET m == CHOOSE x \in P : \A y \in P :
                      x[1] < y[1] \/ (x[1] = y[1] /\ x[2] <= y[2])
         IN <<m>> \o SortedPairs(P \ {m})

IndexOf(path, n) == CHOOSE i \in 1..Len(path) : path[i] = n
Gap(i, j) == IF i < j THEN j - i ELSE i - j

\* One record of the path query: the path's nodes join the locations, the
\* pair gets the path's length, and every pair of nodes of the path that has
\* no distance yet gets its distance along the path.
RecordPath(acc, pair, path) ==
    LET len == Len(path) - 1
        d1 == With(With(acc.distances, <<pair[1], pair[2]>>, len), <<pair[2], pair[1]>>, len)
        nodes == {path[i] : i \in 1..Len(path)}
        new == {k \in nodes \X nodes : k[1] # k[2] /\ k \notin DOMAIN d1}
    IN [locations |-> acc.locations \cup nodes,
        distances |-> [k \in DOMAIN d1 \cup new |->
                          IF k \in DOMAIN d1 THEN d1[k]
                          ELSE Gap(IndexOf(path, k[1]), IndexOf(path, k[2]))]]

RECURSIVE ExplorePaths(_, _, _)
\* The loop over the records of the path query; the result depends on which
\* shortest path Neo4j returns for each pair.
ExplorePaths(G, pairs, acc) ==
    IF pairs = <<>> THEN {acc}
    ELSE LET pair == Head(pairs)
             found == shortestPath(G, pair[1], pair[2])
         IN IF found = {}
            THEN ExplorePaths(G, Tail(pairs), acc)
            ELSE UNION {ExplorePaths(G, Tail(pairs), RecordPath(acc, pair, path)) :
                           path \in found}

NoDistances == [k \in {} |-> 0]

\* get_locations_with_paths: the results it can return.
get_locations_with_paths(G, location_ids) ==
    IF Cardinality(location_ids) < 2
    THEN {[locations |-> location_ids, distances |-> NoDistances]}
    ELSE ExplorePaths(G, SortedPairs({p \in LocPairs : p[1] \in location_ids /\ p[2] \in location_ids}),
                      [locations |-> location_ids, distances |-> NoDistances])

\* get_topology: the hasPathTo relationships between the locations, each
\* pair once, and the precomputed distances completed with 1 for the pairs
\* that are directly connected.
get_topology(G, location_ids, precomputed_distances) ==
    LET connections == {p \in G.hasPathTo : p[1] \in location_ids /\ p[2] \in location_ids}
        direct == connections \cup {<<p[2], p[1]>> : p \in connections}
    IN [connections |-> connections,
        distances |-> [k \in DOMAIN precomputed_distances \cup direct |->
                          IF k \in DOMAIN precomputed_distances
                          THEN precomputed_distances[k] ELSE 1]]

\* get_door_states: the Door nodes among door_ids, with isOpenDoor read as a
\* boolean (a node without the property counts as closed).
get_door_states(G, door_ids) ==
    [d \in door_ids \cap G.doors |-> G.isOpenDoor[d] = "True"]

\* dict.update
Update(f, g) == [k \in DOMAIN f \cup DOMAIN g |-> IF k \in DOMAIN g THEN g[k] ELSE f[k]]

\* pddl_plan from its path expansion to write_problem: first, second are
\* the results of its two calls of get_locations_with_paths (the second is
\* made when a related key was added, with the key's location).
pddl_plan(G, location_ids, key_location, first, second) ==
    LET door_ids == {l \in first.locations : l \in G.doors}
        door_states == get_door_states(G, door_ids)
        topology == get_topology(G, first.locations, first.distances)
        all_locations == first.locations \cup second.locations
        topology2 == get_topology(G, all_locations, Update(first.distances, second.distances))
    IN IF key_location = NoKey
       THEN [objects |-> first.locations,
             hasPathTo |-> topology.connections,
             distance |-> topology.distances,
             isOpenDoor |-> {d \in DOMAIN door_states : door_states[d]}]
       ELSE [objects |-> all_locations,
             hasPathTo |-> topology2.connections,
             distance |-> Update(topology2.distances, topology.distances),
             isOpenDoor |-> {d \in DOMAIN door_states : door_states[d]}]

apply_pddl_plan ==
    /\ call.fn = "goal"
    /\ LET G == call.args[1]
           location_ids == call.args[2]
           key_location == call.args[3]
       IN \E first \in get_locations_with_paths(G, location_ids) :
          \E second \in (IF key_location = NoKey THEN {first}
                         ELSE get_locations_with_paths(G, location_ids \cup {key_location})) :
              ret' = pddl_plan(G, location_ids, key_location, first, second)
    /\ call' = Call("pddl_plan", call.args)
    /\ UNCHANGED programVars

\* A goal: the projection, the spaces the goal needs (where the robot and
\* the artifacts are), and the space of the key its artifacts are related to
\* (NoKey without one).
InitPddl ==
    /\ ProgramAtRest
    /\ \E G \in Projections, location_ids \in SUBSET Locs \ {{}}, key_location \in Locs \cup {NoKey} :
           /\ location_ids \cap G.doors = {}
           /\ key_location \notin G.doors
           /\ call = Call("goal", <<G, location_ids, key_location>>)
    /\ ret = None

NextPddl == apply_pddl_plan

SpecPddl == InitPddl /\ [][NextPddl]_vars

(***************************************************************************)
(* The goal stage of pddl_plan (agent/tools/pddl_plan.py with              *)
(* pddl/scripts/pddl_goal_utils.py) on its own.  A goal formula is a text: *)
(* a sequence of symbols, each "(", ")", " " or a run of word characters   *)
(* (adjacent word symbols read as one word, as in the names above).        *)
(***************************************************************************)
MaxPieces == 5

IsWord(c) == c \notin {"(", ")", " "}

\* str.lower and re.IGNORECASE on the word symbols of the model
LowerTable ==
    [w \in {"isOpen", "ISOPEN", "isClosed", "isInSpace", "artifactIsInSpace", "isON",
            "isOnTop", "isOnTopOf", "isOntopOf", "isHeldBy", "isInsideOf", "robotIsInSpace",
            "artifactIsOnFloorOf", "isAdjacentTo", "isLocked", "isOpenDoor"} |->
        CASE w = "isOpen" -> "isopen"
          [] w = "ISOPEN" -> "isopen"
          [] w = "isClosed" -> "isclosed"
          [] w = "isInSpace" -> "isinspace"
          [] w = "artifactIsInSpace" -> "artifactisinspace"
          [] w = "isON" -> "ison"
          [] w = "isOnTop" -> "isontop"
          [] w = "isOnTopOf" -> "isontopof"
          [] w = "isOntopOf" -> "isontopof"
          [] w = "isHeldBy" -> "isheldby"
          [] w = "isInsideOf" -> "isinsideof"
          [] w = "robotIsInSpace" -> "robotisinspace"
          [] w = "artifactIsOnFloorOf" -> "artifactisonfloorof"
          [] w = "isAdjacentTo" -> "isadjacentto"
          [] w = "isLocked" -> "islocked"
          [] w = "isOpenDoor" -> "isopendoor"]
lower(w) == IF w \in DOMAIN LowerTable THEN LowerTable[w] ELSE w

RECURSIVE SkipWords(_, _)
\* \w+ from position i: the position after the run of word symbols
SkipWords(text, i) == IF i <= Len(text) /\ IsWord(text[i]) THEN SkipWords(text, i + 1) ELSE i

RECURSIVE SkipSpaces(_, _)
\* \s+ from position i: the position after the run of blanks
SkipSpaces(text, i) == IF i <= Len(text) /\ text[i] = " " THEN SkipSpaces(text, i + 1) ELSE i

\* r'\(<pattern>\s+(\w+)\)' or r'\(<pattern>\s+(\w+)\s+(\w+)\)' tried at
\* position i with re.IGNORECASE: the groups and the end of the match
Match(text, i, pattern, num_args) ==
    LET s1 == SkipSpaces(text, i + 2)
        w1 == SkipWords(text, s1)
        s2 == SkipSpaces(text, w1)
        w2 == SkipWords(text, s2)
        head == /\ i + 1 <= Len(text)
                /\ text[i] = "("
                /\ lower(text[i + 1]) = lower(pattern)
                /\ s1 > i + 2
                /\ w1 > s1
    IN  IF num_args = 1
        THEN [ok |-> head /\ w1 <= Len(text) /\ text[w1] = ")",
              groups |-> <<SubSeq(text, s1, w1 - 1)>>, end |-> w1]
        ELSE [ok |-> head /\ s2 > w1 /\ w2 > s2 /\ w2 <= Len(text) /\ text[w2] = ")",
              groups |-> <<SubSeq(text, s1, w1 - 1), SubSeq(text, s2, w2 - 1)>>, end |-> w2]

\* make_replacer: f"({pred_name} {arg1})" or f"({pred_name} {arg1} {arg2})"
replacer(pred_name, groups) ==
    IF Len(groups) = 1
    THEN <<"(", pred_name, " ">> \o groups[1] \o <<")">>
    ELSE <<"(", pred_name, " ">> \o groups[1] \o <<" ">> \o groups[2] \o <<")">>

\* f"(not (isOpen {artifact_id}))"
replace_isclosed(pred_name, groups) ==
    <<"(", "not", " ", "(", "isOpen", " ">> \o groups[1] \o <<")", ")">>

RECURSIVE re_sub_from(_, _, _, _)
\* re.sub: the matches from left to right, not overlapping, each replaced
re_sub_from(text, i, m, special) ==
    IF i > Len(text) THEN <<>>
    ELSE LET found == Match(text, i, m.pattern, m.num_args)
         IN  IF found.ok
             THEN (IF special THEN replace_isclosed(m.correct, found.groups)
                              ELSE replacer(m.correct, found.groups))
                  \o re_sub_from(text, found.end + 1, m, special)
             ELSE <<text[i]>> \o re_sub_from(text, i + 1, m, special)

\* a text in which the predicate's name does not occur has no match
re_sub(text, m, special) ==
    IF \A i \in DOMAIN text : lower(text[i]) # lower(m.pattern) THEN text
    ELSE re_sub_from(text, 1, m, special)

Mapping(pattern, correct, num_args) == [pattern |-> pattern, correct |-> correct, num_args |-> num_args]
predicate_mappings ==
    << Mapping("isInSpace", "artifactIsInSpace", 2),
       Mapping("isOnTopOf", "isOntopOf", 2),
       Mapping("isOnTop", "isON", 1),
       Mapping("isON", "isON", 1),
       Mapping("isOpen", "isOpen", 1),
       Mapping("isHeldBy", "isHeldBy", 2),
       Mapping("isInsideOf", "isInsideOf", 2),
       Mapping("isOntopOf", "isOntopOf", 2),
       Mapping("robotIsInSpace", "robotIsInSpace", 2),
       Mapping("artifactIsOnFloorOf", "artifactIsOnFloorOf", 2),
       Mapping("artifactIsInSpace", "artifactIsInSpace", 2),
       Mapping("isAdjacentTo", "isAdjacentTo", 2),
       Mapping("isLocked", "isLocked", 1),
       Mapping("isOpenDoor", "isOpenDoor", 1) >>

RECURSIVE ApplyMappings(_, _)
\* the loop over predicate_mappings, in the order of the table
ApplyMappings(text, k) ==
    IF k > Len(predicate_mappings) THEN text
    ELSE ApplyMappings(re_sub(text, predicate_mappings[k], FALSE), k + 1)

RECURSIVE ClosingParen(_, _, _)
\* the inner while of fix_not_syntax: the position after the parenthesis
\* that brings the depth to 0, or 0 when the text ends first
ClosingParen(text, j, depth) ==
    IF depth = 0 THEN j
    ELSE IF j > Len(text) THEN 0
    ELSE ClosingParen(text, j + 1,
                      IF text[j] = "(" THEN depth + 1
                      ELSE IF text[j] = ")" THEN depth - 1 ELSE depth)

RECURSIVE fix_not_syntax_from(_, _)
fix_not_syntax_from(text, i) ==
    IF i > Len(text) THEN <<>>
    ELSE LET isNot == /\ i + 2 <= Len(text)
                      /\ text[i] = "not" /\ text[i + 1] = " " /\ text[i + 2] = "("
                      /\ (i = 1 \/ text[i - 1] # "(")
             j == IF isNot THEN ClosingParen(text, i + 3, 1) ELSE 0
         IN  IF isNot /\ j # 0
             THEN <<"(", "not", " ">> \o SubSeq(text, i + 2, j - 1) \o <<")">>
                  \o fix_not_syntax_from(text, j)
             ELSE <<text[i]>> \o fix_not_syntax_from(text, i + 1)

fix_not_syntax(text) == fix_not_syntax_from(text, 1)

normalize_goal_formula(goal_formula) ==
    LET mapped == ApplyMappings(goal_formula, 1)
        closed == re_sub(mapped, Mapping("isClosed", "isOpen", 1), TRUE)
    IN  fix_not_syntax(closed)

keywords == {<<"and">>, <<"or">>, <<"not">>, <<"forall">>, <<"exists">>, <<"when">>, <<"imply">>,
             <<"either">>, <<"increase">>, <<"decrease">>, <<"assign">>}

RECURSIVE findall_identifiers(_, _)
\* re.findall(r'\b([a-zA-Z][a-zA-Z0-9_-]*)\b'): the words of the text
findall_identifiers(text, i) ==
    IF i > Len(text) THEN {}
    ELSE IF IsWord(text[i])
         THEN {SubSeq(text, i, SkipWords(text, i) - 1)}
              \cup findall_identifiers(text, SkipWords(text, i))
         ELSE findall_identifiers(text, i + 1)

extract_identifiers_from_goal(goal_formula) ==
    {id \in findall_identifiers(goal_formula, 1) :
        [k \in DOMAIN id |-> lower(id[k])] \notin keywords}

\* MATCH (n:Individual {id: id}) RETURN DISTINCT id
filter_valid_object_ids(identifiers, individuals) == identifiers \cap individuals

extract_object_ids_from_goal(goal_formula, individuals) ==
    filter_valid_object_ids(extract_identifiers_from_goal(goal_formula), individuals)

\* pddl_plan up to the written problem file: the goal is normalized, its
\* objects are looked up in the projection, the robot is looked up, and the
\* problem is written with the goal objects among its objects
pddl_plan_goal(goal_formula, G) ==
    LET goal == normalize_goal_formula(goal_formula)
        goal_object_ids == extract_object_ids_from_goal(goal, G.individuals)
    IN  IF ~G.robot
        THEN [status |-> "ERROR", goal |-> goal, objects |-> {}, problem |-> FALSE]
        ELSE [status |-> "written", goal |-> goal, objects |-> goal_object_ids, problem |-> TRUE]

\* Goal formulas: texts put together from pieces of PDDL
Pieces ==
    { <<"(", "and", " ">>, <<"not", " ">>, <<"(", "not", " ">>, <<")">>,
      <<"(", "ISOPEN", " ", " ", "a", ")">>, <<"(", "isClosed", " ", "a", ")">>, <<"(", "isInSpace", " ", "a", " ", "b", ")">> }

RECURSIVE Concat(_, _)
Concat(ps, k) == IF k > Len(ps) THEN <<>> ELSE ps[k] \o Concat(ps, k + 1)

Goals == {Concat(ps, 1) : ps \in UNION {[1..n -> Pieces] : n \in 1..MaxPieces}}

GoalProjections == [individuals : {{<<"a">>}, {<<"a">>, <<"b">>}}, robot : BOOLEAN]

apply_normalize_goal_formula ==
    /\ call.fn = "goal_formula"
    /\ call' = Call("normalize_goal_formula", call.args)
    /\ ret' = normalize_goal_formula(call.args[1])
    /\ UNCHANGED programVars

apply_pddl_plan_goal ==
    /\ call.fn = "goal_formula"
    /\ call' = Call("pddl_plan_goal", call.args)
    /\ ret' = pddl_plan_goal(call.args[1], call.args[2])
    /\ UNCHANGED programVars

InitGoal ==
    /\ ProgramAtRest
    /\ \E g \in Goals, G \in GoalProjections : call = Call("goal_formula", <<g, G>>)
    /\ ret = None

NextGoal ==
    \/ apply_normalize_goal_formula
    \/ apply_pddl_plan_goal

SpecGoal == InitGoal /\ [][NextGoal]_vars

(***************************************************************************)
(* PDDLDomainParser (pddl/scripts_origin/pddl_parser.py) on its own: the   *)
(* type hierarchy parsed from the :types section of a domain, and the      *)
(* mapping of an individual's class names onto it.  Types are numbered;    *)
(* a type is declared after its parent.                                    *)
(***************************************************************************)
MaxTypes == 4
MaxClassNames == 3

all_types == 1..MaxTypes
\* a root's parent (None), and the answer for no matching type (None)
NoType == 0
\* a class of the ontology that is not a type of the domain
OtherClass == MaxTypes + 1

\* types_hierarchy: child -> parent
Hierarchies == {h \in [all_types -> {NoType} \cup all_types] : \A t \in all_types : h[t] < t}

RECURSIVE is_subtype_of_walk(_, _, _)
\* the while loop of is_subtype_of: the walk up the parents
is_subtype_of_walk(h, child_type, parent_type) ==
    IF child_type \notin DOMAIN h THEN FALSE
    ELSE IF h[child_type] = parent_type THEN TRUE
    ELSE is_subtype_of_walk(h, h[child_type], parent_type)

is_subtype_of(h, child_type, parent_type) ==
    child_type = parent_type \/ is_subtype_of_walk(h, child_type, parent_type)

map_class_to_domain_type(h, class_names) ==
    LET matching_types == SelectSeq(class_names, LAMBDA c : c \in all_types)
        is_most_specific(candidate) ==
            \A k \in DOMAIN matching_types :
                ~(candidate # matching_types[k] /\ is_subtype_of(h, matching_types[k], candidate))
        found == {k \in DOMAIN matching_types : is_most_specific(matching_types[k])}
    IN  IF matching_types = <<>> THEN NoType
        ELSE IF found # {} THEN matching_types[CHOOSE k \in found : \A l \in found : k <= l]
        ELSE matching_types[1]

ClassNameLists == UNION {[1..n -> all_types \cup {OtherClass}] : n \in 0..MaxClassNames}

apply_map_class_to_domain_type ==
    /\ call.fn = "class_names"
    /\ call' = Call("map_class_to_domain_type", call.args)
    /\ ret' = map_class_to_domain_type(call.args[1], call.args[2])
    /\ UNCHANGED programVars

InitTypes ==
    /\ ProgramAtRest
    /\ \E h \in Hierarchies, class_names \in ClassNameLists : call = Call("class_names", <<h, class_names>>)
    /\ ret = None

NextTypes == apply_map_class_to_domain_type

SpecTypes == InitTypes /\ [][NextTypes]_vars

(***************************************************************************)
(* generate_sparql_update (agent/nodes/world_update.py) on its own: from   *)
(* the triples added and removed between two TTL versions to the text of   *)
(* the update.                                                             *)
(***************************************************************************)
MaxChanged == 2

artifactIsInSpace == <<"artifactIsInSpace">>

\* triples a diff of two versions can hold
ChangedTriples ==
    {robot1} \X {robotIsInSpace, objectIsInSpace, artifactIsInSpace} \X {corridor_14, kitchen_13}

ChangeSets == {T \in SUBSET ChangedTriples : Cardinality(T) <= MaxChanged}

apply_generate_sparql_update ==
    /\ call.fn = "changes"
    /\ call' = Call("generate_sparql_update", call.args)
    /\ ret' = SparqlText(generate_sparql_update(call.args[1], call.args[2], call.args[3]))
    /\ UNCHANGED programVars

InitUpdate ==
    /\ ProgramAtRest
    /\ \E added \in ChangeSets, removed \in ChangeSets, hasMapping \in BOOLEAN :
           call = Call("changes", <<added, removed, hasMapping>>)
    /\ ret = None

NextUpdate == apply_generate_sparql_update

SpecUpdate == InitUpdate /\ [][NextUpdate]_vars

(***************************************************************************)
(* save_incremental_update_to_ttl (agent/nodes/world_update.py) on its     *)
(* own: the rewrite of one move applied to the files a previous version    *)
(* can be.                                                                 *)
(***************************************************************************)
MaxLines == 4

robot2 == <<"robot2">>

\* the lines of robot blocks
RobotLines ==
    {TypeLine(robot1, Robot, ";"), TypeLine(robot2, Robot, ";"),
     PropLine(robotIsInSpace, corridor_14, "."), PropLine(robotIsInSpace, corridor_14, ";"),
     PropLine(robotIsInSpace, kitchen_13, ".")}

\* a previous version: robot blocks, each opened by its rdf:type line
PreviousVersions ==
    {f \in UNION {[1..n -> RobotLines] : n \in 1..MaxLines} : f[1].k = "type"}

apply_save_incremental_update_to_ttl ==
    /\ call.fn = "move"
    /\ call' = Call("save_incremental_update_to_ttl", call.args)
    /\ ret' = save_incremental_update_to_ttl(call.args[1], call.args[2], call.args[3], call.args[4])
    /\ UNCHANGED programVars

InitRewrite ==
    /\ ProgramAtRest
    /\ \E lines \in PreviousVersions, from \in {corridor_14, kitchen_13}, to \in {corridor_14, kitchen_13} :
           /\ from # to
           /\ call = Call("move", <<File(lines), robot1, from, to>>)
    /\ ret = None

NextRewrite == apply_save_incremental_update_to_ttl

SpecRewrite == InitRewrite /\ [][NextRewrite]_vars

-----------------------------------------------------------------------------
(* Properties *)

RobotEdges(r) == {e \in projEdges : e[1] = r /\ e[2] = robotIsInSpace}

\* C1: when a SPARQL UPDATE request returns success, the object-property
\* edges of the projection are exactly the relationships entailed by the
\* asserted facts as they are after the update; nothing entailed only
\* through a deleted asserted triple is left.
C1_ProjectionIsEntailedModel ==
    \A s \in Slots :
        (hpc[s] = "respond" /\ hreq[s].op = "sparql_update" /\ hres[s] = "success"
            /\ faults = 0)
            => projEdges = EdgesOf(assertedFacts, NodesOf(indClass))

\* C2: after any sequence of successful mutating operations, every Robot
\* individual has at most one outgoing robotIsInSpace edge in the projection.
C2_RobotInOneSpace ==
    (LoopIdle /\ faults = 0)
        => \A r \in DOMAIN indClass :
              indClass[r] = Robot => Cardinality(RobotEdges(r)) <= 1

\* C3: for a move(r, from, to) the executor has executed as action N+1, the
\* diff between dynamic_N.ttl and dynamic_{N+1}.ttl is: removed exactly
\* (r, robotIsInSpace, from), added exactly (r, robotIsInSpace, to).
C3_DiffIsTheMove ==
    wf.execution_status = "success"
        => LET a == wf.last_executed_action
               new == dynamicTtl[wf.executed_action_count]
               old == dynamicTtl[CHOOSE n \in Versions : n + 1 = wf.executed_action_count]
           IN /\ RemovedTriples(old, new) = {<<a.robot, robotIsInSpace, a.from>>}
              /\ AddedTriples(old, new) = {<<a.robot, robotIsInSpace, a.to>>}

\* The step taken is world_update reaching one of its failures: the action
\* cannot be parsed, the previous dynamic TTL version is missing, the TTL
\* rewrite fails, no SPARQL update is generated, or the update request fails.
ActionFails ==
    \/ /\ node = "world_update"
       /\ node' # "world_update"
       /\ wf.current_action.kind = "badmove"
    \/ /\ node = "world_update"
       /\ node' # "world_update"
       /\ wf.current_action.kind = "move"
       /\ LET a == wf.current_action
              original == dynamicTtl[wf.executed_action_count]
              updated == save_incremental_update_to_ttl(original, a.robot, a.from, a.to)
          IN \/ ~original.exists
             \/ ~updated.exists
             \/ EmptyQuery(generate_sparql_update(AddedTriples(original, updated),
                                                  RemovedTriples(original, updated),
                                                  envFiles["mapping"].exists))
    \/ /\ node = "wu_wait"
       /\ node' # "wu_wait"
       /\ httpResp # "success"

\* C4: if any step of executing an action fails, execution_status is set to
\* failed and the workflow ends: no further plan action is dispatched.
C4_FailureEndsWorkflow ==
    [][/\ ActionFails => (wf'.execution_status = "failed" /\ node' = "END")
       /\ wf.execution_status = "failed" => node' \in {"END", "plan_reader"}]_vars

\* C4's case: an action has failed with plan actions still to run.
C4_Witness ==
    /\ node = "END"
    /\ wf.execution_status = "failed"
    /\ wf.remaining_actions # <<>>

\* C5: an action execution that ends with execution_status failed has
\* written action/log/<executed_count+1>.json with status failed, whichever
\* step failed.
C5_FailureIsLogged ==
    wf.execution_status = "failed" => logs[wf.executed_action_count + 1] = "failed"

\* C6: a file dynamic_N.ttl, once written, is never written again, across
\* plan_reader and world_update steps and workflow runs.
C6_WrittenOnce == \A n \in Versions : writeCount[n] <= 1

\* C7: if dynamic_N.ttl exists then dynamic_0.ttl .. dynamic_{N-1}.ttl exist.
C7_VersionsContiguous ==
    \A n \in Versions :
        dynamicTtl[n].exists => \A m \in Versions : m < n => dynamicTtl[m].exists

\* C7's case: two actions have written their versions.
C7_Witness == dynamicTtl[2].exists /\ wf.executed_action_count = 2

\* C8: once world_update has returned success for a move, every projection
\* read made afterwards, also while the next action executes, shows the robot
\* at that move's destination and not at its origin.
C8_ReadSeesLastMove ==
    [][(/\ readObs' # readObs
        /\ wf.execution_status = "success"
        /\ wf.last_executed_action.kind = "move")
          => /\ wf.last_executed_action.to \in readObs'.at
             /\ wf.last_executed_action.from \notin readObs'.at]_vars

\* C9: no two mutating operations are in progress at the same time: from its
\* change of the OWL world through the reasoner run to its last write of the
\* projection, a handler is the only one.
C9_OneWriter == Cardinality({s \in Slots : hpc[s] # "idle"}) <= 1

\* C9's case: a SPARQL UPDATE is between the statements of its sync.
C9_Witness ==
    \E s \in Slots : hpc[s] = "sync_nodes" /\ hreq[s].op = "sparql_update"

\* C10: a projection read never observes a sync's intermediate state, where
\* the Individual nodes have been deleted and not all nodes and edges of the
\* reasoned model are back.
C10_NoPartialRead ==
    [][readObs' # readObs => ~(SyncInProgress /\ ~ProjectionComplete)]_vars

OntologyManagerOps ==
    {"add_individual", "add_individuals_batch", "update_individual", "delete_individual"}

\* C11: whenever add_individual, add_individuals_batch, update_individual or
\* delete_individual returns success, the projection has exactly one node per
\* individual of the model and an edge (a, p, b) exactly for the entailed
\* object-property pairs.
C11_SuccessMeansProjected ==
    \A s \in Slots :
        (hpc[s] = "respond" /\ hreq[s].op \in OntologyManagerOps /\ hres[s] = "success")
            => /\ projNodes = NodesOf(indClass)
               /\ projEdges = EdgesOf(assertedFacts, NodesOf(indClass))

\* C12: if add_individual, add_individuals_batch, update_individual or
\* delete_individual returns an error, the asserted model and the projection
\* are what they were before the call.
C12_ErrorChangesNothing ==
    [][\A s \in Slots :
          (/\ hpc[s] = "idle"
           /\ hpc'[s] = "respond"
           /\ hreq'[s].op \in OntologyManagerOps
           /\ hres'[s] = "error")
             => /\ indClass' = indClass
                /\ assertedFacts' = assertedFacts
                /\ projNodes' = projNodes
                /\ projEdges' = projEdges]_vars

C15_BatchCountsEveryItem ==
    call.fn = "add_individuals_batch" =>
        LET ic == call.args[1]
            items == call.args[3]
        IN /\ ret.added + ret.failed = Len(items)
           /\ \A i \in 1..Len(items) :
                  items[i].class \in SchemaClasses => items[i].id \in DOMAIN ret.ic
           /\ Cardinality(DOMAIN ret.ic) = Cardinality(DOMAIN ic) + ret.added

\* A batch whose first item failed on its class and whose second was added.
C15_Witness ==
    /\ call.fn = "add_individuals_batch"
    /\ Len(call.args[3]) = 2
    /\ call.args[3][1].class = UnknownClass
    /\ call.args[3][2].id \notin DOMAIN call.args[1]
    /\ ret.added = 1
    /\ ret.failed = 1

\* DELETE { triples } INSERT { triples } WHERE { }, and nothing else.
SupportedShape(lines) ==
    LET n == Len(lines)
    IN /\ n >= 5
       /\ lines[1].k = "DELETE {"
       /\ lines[n].k = "WHERE { }"
       /\ \E m \in 2..n :
              /\ m + 2 <= n
              /\ lines[m].k = "}"
              /\ lines[m + 1].k = "INSERT {"
              /\ \A i \in 2..n : (i < m \/ (m + 1 < i /\ i + 1 < n)) => lines[i].k = "triple"
              /\ \A i \in 1..n : i + 1 = n => lines[i].k = "}"

\* C16: a POST /sparql/update whose text is not one
\* DELETE { } INSERT { } WHERE { } block is answered with an error, and the
\* triples of the model are what they were.
C16_OtherShapesRejected ==
    [][\A s \in Slots :
          (hpc[s] = "idle" /\ hreq'[s].op = "sparql_update") =>
              \A text \in ClientUpdateTexts :
                  (client_sparql_update(s, text) /\ ~SupportedShape(text))
                      => /\ hpc'[s] = "respond"
                         /\ hres'[s] = "error"
                         /\ triples' = triples
                         /\ assertedFacts' = assertedFacts]_vars

\* C17: when the update DELETE { robot1 robotIsInSpace corridor_14 }
\* INSERT { robot1 robotIsInSpace kitchen_13 } WHERE { } has been applied and
\* answers success, the projection has no objectIsInSpace edge from robot1 to
\* corridor_14 (isInSpace is the name the spec gives that edge) and has the
\* edges from robot1 to kitchen_13.
C17_MoveLeavesNoOldEdge ==
    \A s \in Slots :
        (/\ hpc[s] = "respond"
         /\ hreq[s].op = "sparql_update"
         /\ hreq[s].del = MoveUpdate(robot1, corridor_14, kitchen_13).del
         /\ hres[s] = "success"
         /\ faults = 0
         /\ <<robot1, robotIsInSpace, corridor_14>> \notin assertedFacts
         /\ <<robot1, robotIsInSpace, kitchen_13>> \in assertedFacts)
            => /\ <<robot1, objectIsInSpace, corridor_14>> \notin projEdges
               /\ <<robot1, robotIsInSpace, corridor_14>> \notin projEdges
               /\ <<robot1, robotIsInSpace, kitchen_13>> \in projEdges
               /\ <<robot1, objectIsInSpace, kitchen_13>> \in projEdges

\* extract_robot_location of verify_robot_location.py: the object of the
\* first robotIsInSpace line of robot1's block, None without one.
extract_robot_location(file) ==
    LET hits == {i \in 1..Len(file.lines) :
                    /\ file.lines[i].k = "prop"
                    /\ file.lines[i].a = robotIsInSpace
                    /\ SubjectAt(file.lines, i) = robot1}
    IN IF ~file.exists \/ hits = {} THEN None
       ELSE file.lines[CHOOSE i \in hits : \A j \in hits : i <= j].b

\* C18: when a run has executed a plan made of move actions with success to
\* its end, dynamic_0.ttl records the location the environment's dynamic.ttl
\* gives the robot, and dynamic_i.ttl records the destination of the plan's
\* i-th move.
C18_VersionsFollowPlan ==
    (/\ node = "END"
     /\ wf.execution_status = "success"
     /\ wf.plan_actions # <<>>
     /\ wf.executed_action_count = Len(wf.plan_actions)
     /\ \A i \in 1..Len(wf.plan_actions) : wf.plan_actions[i].kind = "move")
        => /\ extract_robot_location(dynamicTtl[0]) = extract_robot_location(envFiles["dynamic"])
           /\ \A i \in 1..Len(wf.plan_actions) :
                  extract_robot_location(dynamicTtl[i]) = wf.plan_actions[i].to

RECURSIVE HopsWithin(_, _, _, _, _)
\* The number of hasPathTo steps from the nodes of frontier to b, counted
\* from n, breadth first; 0 when b cannot be reached.
HopsWithin(G, frontier, seen, b, n) ==
    IF b \in frontier THEN n
    ELSE IF frontier = {} THEN 0
    ELSE LET next == {x \in Locs \ (seen \cup frontier) :
                         \E y \in frontier : Adjacent(G, x, y)}
         IN HopsWithin(G, next, seen \cup frontier, b, n + 1)

\* C19: every distance fact the synthesizer emits for two locations of its
\* universe is the number of steps of a shortest hasPathTo path between them.
C19_DistanceIsHopCount ==
    call.fn = "pddl_plan" =>
        \A k \in DOMAIN ret.distance :
            /\ k[1] \in ret.objects
            /\ k[2] \in ret.objects
            /\ ret.distance[k] = HopsWithin(call.args[1], {k[1]}, {}, k[2], 0)

\* A problem with a distance of 2 between two locations of which one was not
\* asked for: it comes from a part of a longer shortest path.
C19_Witness ==
    /\ call.fn = "pddl_plan"
    /\ \E k \in DOMAIN ret.distance :
           /\ ret.distance[k] = 2
           /\ k[2] \notin call.args[2] \cup {call.args[3]}

\* C20: every (isOpenDoor d) of :init names a Door node that stores
\* isOpenDoor true, and every Door of the emitted locations that stores
\* isOpenDoor true has its (isOpenDoor d).
C20_OpenDoorsEmitted ==
    call.fn = "pddl_plan" =>
        LET G == call.args[1]
        IN /\ \A d \in ret.isOpenDoor : d \in G.doors /\ G.isOpenDoor[d] = "True"
           /\ \A d \in ret.objects \cap G.doors :
                  G.isOpenDoor[d] = "True" => d \in ret.isOpenDoor

\* C21: normalizing an already normalized goal returns it unchanged:
\* normalize(normalize(g)) = normalize(g) for every goal text g.
C21_NormalizeIdempotent ==
    call.fn = "normalize_goal_formula" => normalize_goal_formula(ret) = ret

\* the identifiers of a goal that stand for objects: not a keyword, not the
\* name of a predicate
ObjectIdsNamed(goal) ==
    {id \in extract_identifiers_from_goal(goal) :
        Len(id) # 1 \/ id[1] \notin DOMAIN LowerTable}

\* C22: when the goal names an object id that is not in the projection,
\* pddl_plan ends with an error and writes no problem file.
C22_MissingObjectIsHardError ==
    (/\ call.fn = "pddl_plan_goal"
     /\ ObjectIdsNamed(ret.goal) \ call.args[2].individuals # {})
    => (ret.status = "ERROR" /\ ~ret.problem)

RECURSIVE Depth(_, _)
\* the number of ancestors of a type
Depth(h, t) == IF h[t] = NoType THEN 0 ELSE 1 + Depth(h, h[t])

\* the given names that are domain types and have no strict subtype among
\* the given names
MostSpecific(h, class_names) ==
    LET given == {class_names[k] : k \in DOMAIN class_names} \cap all_types
    IN  {c \in given : \A o \in given : o = c \/ ~is_subtype_of(h, o, c)}

\* C23: the type returned is a most specific one among the given names that
\* are domain types, and no other most specific candidate lies deeper in the
\* hierarchy than it.
C23_MostSpecificDeepest ==
    (call.fn = "map_class_to_domain_type" /\ MostSpecific(call.args[1], call.args[2]) # {})
    => LET h == call.args[1]
           best == MostSpecific(h, call.args[2])
       IN  /\ ret \in best
           /\ \A c \in best : Depth(h, c) <= Depth(h, ret)

\* the triples of the DELETE block of a query text, as they are written
DeleteBlock(lines) ==
    {lines[i].t : i \in {j \in 1..Len(lines) :
        lines[j].k = "triple" /\ InSection(lines, j, "delete")}}

\* C24: for every removed triple (s, p, o) whose predicate is an asserted
\* predicate with an entry in the relationship mapping, the DELETE block of
\* the generated text contains (s, p, o) and, for each inferred relationship
\* q mapped to p, (o, q, s) when q is an inverse inference and (s, q, o)
\* otherwise.
C24_DeleteBlockHasInferred ==
    call.fn = "generate_sparql_update" =>
        \A t \in call.args[2] :
            (call.args[3] /\ t[2] \in AssertedPredicates /\ t[2] \in DOMAIN RelationshipMapping)
            => /\ <<URIRef(t[1]), URIRef(t[2]), URIRef(t[3])>> \in DeleteBlock(ret)
               /\ \A r \in RelationshipMapping[t[2]] :
                      (IF r.type = "inverse_inference"
                       THEN <<URIRef(t[3]), URIRef(r.relationship), URIRef(t[1])>>
                       ELSE <<URIRef(t[1]), URIRef(r.relationship), URIRef(t[3])>>)
                      \in DeleteBlock(ret)

\* the lines of a file that state, for the robot, robotIsInSpace with the
\* old target
MatchingLines(file, robot_id, from) ==
    {i \in 1..Len(file.lines) :
        /\ file.lines[i].k = "prop"
        /\ file.lines[i].a = robotIsInSpace
        /\ file.lines[i].b = from
        /\ SubjectAt(file.lines, i) = robot_id}

\* C25: a rewrite that produces a new version changed exactly one line of
\* the previous one, and the rewrite produces no version unless exactly one
\* line states the robot's robotIsInSpace with the old target.
C25_RewriteNeedsUniqueLine ==
    call.fn = "save_incremental_update_to_ttl" =>
        LET original == call.args[1]
        IN  /\ ret.exists =>
                /\ Len(ret.lines) = Len(original.lines)
                /\ Cardinality({i \in 1..Len(original.lines) : ret.lines[i] # original.lines[i]}) = 1
            /\ Cardinality(MatchingLines(original, call.args[2], call.args[3])) # 1 => ~ret.exists

\* C29: an item of a batch that is counted as failed because an individual
\* with its id existed before the batch leaves the properties of that
\* individual as they were.
C29_DuplicateItemChangesNothing ==
    call.fn = "add_individuals_batch" =>
        LET ic == call.args[1]
            T == call.args[2]
            items == call.args[3]
        IN  \A k \in DOMAIN items :
                Resolve(ic, items[k].id) # None
                => {t \in ret.T : t[1] = Resolve(ic, items[k].id)}
                   = {t \in T : t[1] = Resolve(ic, items[k].id)}

\* what next_action reads as the remaining actions
Remaining(st) == IF st.remaining_set THEN st.remaining_actions ELSE st.plan_actions

\* the number of actions of the plan taken off the remaining actions
Taken(st) == Len(st.plan_actions) - Len(Remaining(st))

\* C26: every pass through next_action shortens the remaining actions,
\* world_update is invoked only for an action taken off the plan (so at most
\* len(plan) times), and the workflow goes back to next_action only while
\* actions remain and the status is not failed; otherwise it ends.
C26_AtMostPlanLengthInvocations ==
    [][/\ (node = "next_action" /\ node' # node)
            => Len(Remaining(wf')) < Len(Remaining(wf))
       /\ (node = "world_update" /\ node' # node)
            => (1 <= Taken(wf) /\ Taken(wf) <= Len(wf.plan_actions))
       /\ (node \in {"world_update", "wu_wait"} /\ node' \in {"next_action", "END"})
            => (node' = "next_action"
                  <=> (wf'.remaining_actions # <<>> /\ wf'.execution_status # "failed"))]_vars

\* C27: next_action hands world_update the actions of the plan in the
\* order of the plan, one position further at each pass, and hands one over
\* only when no earlier action has left the status failed.
C27_DispatchedInPlanOrder ==
    [][(node = "next_action" /\ node' = "world_update" /\ wf'.current_action # NoAction)
          => /\ Taken(wf') = Taken(wf) + 1
             /\ Taken(wf') \in 1..Len(wf.plan_actions)
             /\ wf'.plan_actions = wf.plan_actions
             /\ wf'.current_action = wf.plan_actions[Taken(wf')]
             /\ wf'.remaining_actions
                  = SubSeq(wf.plan_actions, Taken(wf') + 1, Len(wf.plan_actions))
             /\ wf.execution_status # "failed"
             /\ wf.executed_action_count <= Taken(wf)]_vars

\* the second action of a plan is at world_update after the first was executed
C27_Witness ==
    /\ node = "world_update"
    /\ Len(wf.plan_actions) = 2
    /\ wf.current_action = wf.plan_actions[2]
    /\ wf.plan_actions[1] # wf.plan_actions[2]
    /\ wf.execution_status = "success"
    /\ wf.executed_action_count = 1

\* C28: in the first run of the workflow, once it has ended, dynamic_N.ttl
\* (N >= 1) is there only if the log N.json says success and
\* executed_action_count has reached N.
C28_VersionOnlyIfAccepted ==
    (node = "END" /\ runs = 1) =>
        \A N \in Versions \ {0} :
            dynamicTtl[N].exists
            => (logs[N] = "success" /\ wf.executed_action_count >= N)

====
